---- MODULE Spec2Model ----
(***************************************************************************)
(* Byte::hash_tree<K,T> (src/hash_tree.h): a chained hash index over a     *)
(* slot-store of node records that also form a tree through parent_index   *)
(* and childs links.                                                       *)
(*                                                                         *)
(* The slot-store (sparse_vector.h) is not part of src/; it is modelled    *)
(* from its contract: emplace hands out the identifier of any slot that    *)
(* holds no live record (a reclaimed one or a fresh one), erase removes    *)
(* exactly one live record and leaves the other identifiers alone, and     *)
(* iteration yields the live records in an order of the store's choosing.  *)
(*                                                                         *)
(* Undefined behaviour.  A call that indexes the store with _EMPTY_INDEX,  *)
(* reduces a hash modulo a table of size 0, erases a slot that is not      *)
(* live, or uses an invalidated vector iterator ends with status "ub" and  *)
(* the memory as it was at that point.  A call that touches the memory of  *)
(* a slot that is no longer live either finds the bytes the erased record  *)
(* left behind and goes on (tol = TRUE) or ends with status "ub"           *)
(* (tol = FALSE).  A chain walk that never meets _EMPTY_INDEX ends with    *)
(* status "hang".  Nothing runs after a call that did not return.          *)
(***************************************************************************)
EXTENDS Integers, Sequences, FiniteSets

\* ---------------------------------------------------------------- bounds
NumKeys   == 3      \* keys are 1..NumKeys
NumValues == 2      \* values are 1..NumValues
MaxSlots  == 3      \* the slot-store holds at most MaxSlots records
MaxCalls  == 4      \* calls made on one container

Keys   == 1..NumKeys
Values == 1..NumValues
Slots  == 0..(MaxSlots - 1)

\* _EMPTY_INDEX: numeric_limits<size_t>::max(), a value that is no slot
_EMPTY_INDEX == 0 - 1

MAX_LOAD_NUM == 9   \* MAX_LOAD = 0.9 = MAX_LOAD_NUM / LOAD_DEN
MIN_LOAD_NUM == 2   \* MIN_LOAD = 0.2 = MIN_LOAD_NUM / LOAD_DEN
LOAD_DEN     == 10

\* _hasher(key): keys 1 and 2 share a hash value, the others differ
Hash(key) == IF key <= 2 THEN 0 ELSE key - 2

VARIABLES
  _nodes,       \* memory of the slot-store: slot -> node record
  live,         \* slots that hold a live record; size() = Cardinality(live)
  _table,       \* bucket heads, bucket b is _table[b + 1]
  _head_index,  \* root slot or _EMPTY_INDEX
  status,       \* "ok", "ub" or "hang": how the last call ended
  op,           \* the last call: name and arguments
  ret,          \* what the last call returned (at, operator[]; the number of
                \* steps of a traversal), 0 otherwise
  calls         \* number of calls made so far

vars == <<_nodes, live, _table, _head_index, status, op, ret, calls>>

\* hash_tree_node as constructed by _nodes.emplace(pair, hash_value)
hash_tree_node(key, value, hash_value) ==
  [key |-> key, value |-> value, hash_value |-> hash_value,
   childs |-> <<>>, parent_index |-> _EMPTY_INDEX, next_index |-> _EMPTY_INDEX]

\* a slot that never held a record
Blank == hash_tree_node(0, 0, 0)

\* The container during a call: the members, how the call stands, whether
\* accesses to erased slots find the bytes left behind (tol), and whether the
\* call has touched an erased slot (dead).
Machine(tol) ==
  [nodes |-> _nodes, live |-> live, table |-> _table, head |-> _head_index,
   st |-> "ok", tol |-> tol, dead |-> FALSE]

Fail(m, how) == IF m.st = "ok" THEN [m EXCEPT !.st = how] ELSE m

size(m) == Cardinality(m.live)
table_size(m) == Len(m.table)

\* load_factor() > MAX_LOAD and load_factor() < MIN_LOAD.  size/0.0 is NaN
\* for size 0 and both comparisons are then false, as they are here.
\* (a MAX_LOAD of 1.0: a full table does not grow)
AboveMaxLoadFull(m) == LOAD_DEN * size(m) > LOAD_DEN * table_size(m)
AboveMaxLoad(m) == LOAD_DEN * size(m) > MAX_LOAD_NUM * table_size(m)
BelowMinLoad(m) == LOAD_DEN * size(m) < MIN_LOAD_NUM * table_size(m)

\* _nodes[i]: a reference to the record in slot i
Acc(m, i) ==
  IF m.st # "ok" THEN m
  ELSE IF i = _EMPTY_INDEX THEN Fail(m, "ub")
  ELSE IF i \notin m.live
       THEN IF m.tol THEN [m EXCEPT !.dead = TRUE] ELSE Fail(m, "ub")
  ELSE m

Range(s) == {s[i] : i \in 1..Len(s)}

\* the orders in which the store may iterate
Perms(S) == {f \in [1..Cardinality(S) -> S] : \A s \in S : \E i \in DOMAIN f : f[i] = s}

\* ---------------------------------------------------------------- index
RECURSIVE IndexWalk(_, _, _, _, _)
IndexWalk(m, i, hash_value, key, n) ==
  LET m1 == Acc(m, i) IN
  IF m1.st # "ok" THEN [m |-> m1, r |-> _EMPTY_INDEX]
  ELSE IF n > Cardinality(Slots) THEN [m |-> Fail(m1, "hang"), r |-> _EMPTY_INDEX]
  ELSE LET it == m1.nodes[i]
           match == it.hash_value = hash_value /\ it.key = key
       IN IF it.next_index # _EMPTY_INDEX
          THEN IF match THEN [m |-> m1, r |-> i]
               ELSE IndexWalk(m1, it.next_index, hash_value, key, n + 1)
          ELSE IF match THEN [m |-> m1, r |-> i]
               ELSE [m |-> m1, r |-> _EMPTY_INDEX]

index(m, key) ==
  IF m.st # "ok" THEN [m |-> m, r |-> _EMPTY_INDEX]
  ELSE IF table_size(m) = 0 THEN [m |-> Fail(m, "ub"), r |-> _EMPTY_INDEX]
  ELSE LET hash_value == Hash(key)
           i == m.table[(hash_value % table_size(m)) + 1]
       IN IF i = _EMPTY_INDEX THEN [m |-> m, r |-> _EMPTY_INDEX]
          ELSE IndexWalk(m, i, hash_value, key, 1)

\* ------------------------------------------------------------ insert_map
RECURSIVE ChainTail(_, _, _)
ChainTail(m, i, n) ==
  LET m1 == Acc(m, i) IN
  IF m1.st # "ok" THEN [m |-> m1, r |-> _EMPTY_INDEX]
  ELSE IF n > Cardinality(Slots) THEN [m |-> Fail(m1, "hang"), r |-> _EMPTY_INDEX]
  ELSE IF m1.nodes[i].next_index # _EMPTY_INDEX
       THEN ChainTail(m1, m1.nodes[i].next_index, n + 1)
       ELSE [m |-> m1, r |-> i]

insert_map(m, map_index, node_index) ==
  IF m.st # "ok" THEN m
  ELSE IF m.table[map_index + 1] = _EMPTY_INDEX
       THEN [m EXCEPT !.table[map_index + 1] = node_index]
       ELSE LET t == ChainTail(m, m.table[map_index + 1], 1) IN
            IF t.m.st # "ok" THEN t.m
            ELSE [t.m EXCEPT !.nodes[t.r].next_index = node_index]

\* ---------------------------------------------------------------- rehash
RECURSIVE RehashLoop(_, _, _)
RehashLoop(m, its, j) ==
  IF m.st # "ok" \/ j > Len(its) THEN m
  ELSE IF table_size(m) = 0 THEN Fail(m, "ub")
  ELSE RehashLoop(insert_map(m, m.nodes[its[j]].hash_value % table_size(m), its[j]),
                  its, j + 1)

rehash(m, new_size, order) ==
  IF m.st # "ok" THEN m
  ELSE LET cleared ==
             [m EXCEPT !.nodes = [s \in Slots |->
                                    IF s \in m.live
                                    THEN [m.nodes[s] EXCEPT !.next_index = _EMPTY_INDEX]
                                    ELSE m.nodes[s]],
                       !.table = [b \in 1..new_size |-> _EMPTY_INDEX]]
           its == SelectSeq(order, LAMBDA s : s \in m.live)
       IN RehashLoop(cleared, its, 1)

\* --------------------------------------------------------------- _insert
\* the slots _nodes.emplace may hand out: a reclaimed one, or the next one
\* that never held a record
FreeSlots ==
  LET reclaimed == {s \in Slots \ live : _nodes[s] # Blank}
      fresh == {s \in Slots \ live : _nodes[s] = Blank}
  IN reclaimed \cup {s \in fresh : \A t \in fresh : s <= t}

\* _nodes.emplace(...): the store puts the record in slot s
emplace(m, rec, s) ==
  IF m.st # "ok" THEN m
  ELSE [m EXCEPT !.nodes[s] = rec, !.live = m.live \cup {s}]

_insert(m, key, value, s, order) ==
  LET m1 == IF AboveMaxLoad(m) THEN rehash(m, table_size(m) * 2, order) ELSE m
      hash_value == Hash(key)
      m2 == emplace(m1, hash_tree_node(key, value, hash_value), s)
  IN IF m2.st # "ok" THEN [m |-> m2, r |-> _EMPTY_INDEX]
     ELSE IF table_size(m2) = 0 THEN [m |-> Fail(m2, "ub"), r |-> _EMPTY_INDEX]
     ELSE [m |-> insert_map(m2, hash_value % table_size(m2), s), r |-> s]

\* childs.push_back(i) on the record in slot p
push_back(m, p, i) ==
  LET m1 == Acc(m, p) IN
  IF m1.st # "ok" THEN m1
  ELSE [m1 EXCEPT !.nodes[p].childs = Append(@, i)]

set_parent_index(m, i, p) ==
  LET m1 == Acc(m, i) IN
  IF m1.st # "ok" THEN m1
  ELSE [m1 EXCEPT !.nodes[i].parent_index = p]

\* insert(K&&, T&&)
insert2(m, key, value, s, order) ==
  LET a == _insert(m, key, value, s, order) IN
  IF a.m.st # "ok" THEN a.m
  ELSE IF a.m.head = _EMPTY_INDEX
       THEN [a.m EXCEPT !.head = a.r]
       ELSE set_parent_index(push_back(a.m, a.m.head, a.r), a.r, a.m.head)

\* insert(K&&, T&&, const K& parent)
insert3(m, key, value, parent, s, order) ==
  LET a == _insert(m, key, value, s, order)
      p == index(a.m, parent)
  IN IF p.m.st # "ok" THEN p.m
     ELSE set_parent_index(push_back(p.m, p.r, a.r), a.r, p.r)

\* ---------------------------------------------------------- remove_child
RemoveAll(seq, x) == SelectSeq(seq, LAMBDA e : e # x)

remove_child(m, child_index) ==
  LET m1 == Acc(m, child_index) IN
  IF m1.st # "ok" THEN m1
  ELSE LET p == m1.nodes[child_index].parent_index
           m2 == Acc(m1, p)
       IN IF m2.st # "ok" THEN m2
          ELSE [m2 EXCEPT !.nodes[p].childs = RemoveAll(@, child_index)]

\* ------------------------------------------------------------ clear, erase
\* clear(): _table.clear() leaves a table of size 0.  No later call reads
\* the memory the records leave behind (each stops at the table of size 0),
\* so the slots start over as blank.
clear(m) ==
  IF m.st # "ok" THEN m
  ELSE [m EXCEPT !.head = _EMPTY_INDEX, !.table = <<>>, !.live = {},
                 !.nodes = [s \in Slots |-> Blank]]

\* _nodes.erase(i) of the store: i must hold a live record
store_erase(m, i) ==
  IF m.st # "ok" THEN m
  ELSE IF i \notin m.live THEN Fail(m, "ub")
  ELSE [m EXCEPT !.live = m.live \ {i}]

\* the while (!visit.empty()) loop of erase
RECURSIVE Cascade(_, _)
Cascade(m, visit) ==
  IF m.st # "ok" \/ visit = <<>> THEN m
  ELSE LET front == Head(visit)
           m1 == Acc(m, front)
       IN IF m1.st # "ok" THEN m1
          ELSE Cascade(store_erase(m1, front), Tail(visit) \o m1.nodes[front].childs)

\* erase up to the load-factor test: [m, cleared]
EraseNodes(m, key) ==
  LET a == index(m, key) IN
  IF a.m.st # "ok" THEN [m |-> a.m, cleared |-> FALSE]
  ELSE IF a.r = a.m.head THEN [m |-> clear(a.m), cleared |-> TRUE]
  ELSE LET m1 == Acc(a.m, a.r) IN
       IF m1.st # "ok" THEN [m |-> m1, cleared |-> FALSE]
       ELSE LET m2 == IF m1.nodes[a.r].parent_index # _EMPTY_INDEX
                      THEN remove_child(m1, a.r) ELSE m1
            IN [m |-> Cascade(m2, <<a.r>>), cleared |-> FALSE]

erase(m, key, order) ==
  LET e == EraseNodes(m, key) IN
  IF e.m.st # "ok" \/ e.cleared THEN e.m
  ELSE IF BelowMinLoad(e.m) THEN rehash(e.m, table_size(e.m) \div 2, order)
  ELSE e.m

\* ------------------------------------------------------------- set_parent
\* _set_parent(_index, parent_index, _nodes[parent_index].childs.end()):
\* when remove_child erases _index from the very list _where points into,
\* _where is invalidated and the insert through it is undefined.
_set_parent(m, _index, parent_index) ==
  LET m1 == Acc(m, _index) IN
  IF m1.st # "ok" THEN m1
  ELSE LET old == m1.nodes[_index].parent_index
           m2 == IF old # _EMPTY_INDEX THEN remove_child(m1, _index) ELSE m1
       IN IF m2.st # "ok" THEN m2
          ELSE IF old = parent_index /\ _index \in Range(m1.nodes[parent_index].childs)
               THEN Fail(m2, "ub")
               ELSE [m2 EXCEPT !.nodes[parent_index].childs = Append(@, _index),
                               !.nodes[_index].parent_index = parent_index]

set_parent(m, key, new_parent) ==
  LET a == index(m, key)
      p == index(a.m, new_parent)
  IN _set_parent(Acc(p.m, p.r), a.r, p.r)

\* --------------------------------------------------------------------- at
at(m, key) ==
  LET a == index(m, key)
      m1 == Acc(a.m, a.r)
  IN [m |-> m1, r |-> IF m1.st = "ok" THEN m1.nodes[a.r].value ELSE 0]

\* ------------------------------------------------------------ operator[]
\* T{}: the value a default-constructed T holds
DefaultValue == 1

\* return _nodes[_index].pair.second;
subscript_value(m, i) ==
  [m |-> m, r |-> IF m.st = "ok" THEN m.nodes[i].value ELSE 0]

\* the reference operator[] returns for the slot that index() found
subscript_found(a) ==
  CHOOSE x \in {subscript_value(m1, a.r) : m1 \in {Acc(a.m, a.r)}} : TRUE

\* insert(key, T()) followed by the second index(key)
subscript_insert(m, key, s, order) ==
  CHOOSE x \in {subscript_found(b) :
                  b \in {index(i, key) :
                           i \in {insert2(m, key, DefaultValue, s, order)}}} : TRUE

\* the branch on index(key) == _EMPTY_INDEX
subscript_branch(a, key, s, order) ==
  IF a.m.st # "ok" THEN [m |-> a.m, r |-> 0]
  ELSE IF a.r = _EMPTY_INDEX
       THEN CHOOSE x \in {subscript_insert(m1, key, s, order) : m1 \in {a.m}} : TRUE
       ELSE subscript_found(a)

\* operator[](key); s and order are the store's choices if it inserts
subscript(m, key, s, order) ==
  CHOOSE x \in {subscript_branch(a, key, s, order) : a \in {index(m, key)}} : TRUE

\* ---------------------------------------------------- hash_tree_iterator
\* hash_tree_iterator(nodes, head_index, index, size)
hash_tree_iterator(head_index, i) == [visit |-> <<head_index>>, index |-> i]

begin(m) == hash_tree_iterator(m.head, 0)
end(m) == hash_tree_iterator(_EMPTY_INDEX, size(m))

\* operator!=
iter_neq(a, b) == a.index # b.index

\* _nodes[_visit[_index]]: _visit[_index] is read first, then the slot
deref(m, it) ==
  IF m.st # "ok" THEN m
  ELSE IF it.index >= Len(it.visit) THEN Fail(m, "ub")
  ELSE Acc(m, it.visit[it.index + 1])

\* operator++
increment(m, it) ==
  LET m1 == deref(m, it) IN
  IF m1.st # "ok" THEN [m |-> m1, it |-> it]
  ELSE [m |-> m1,
        it |-> [visit |-> it.visit \o m1.nodes[it.visit[it.index + 1]].childs,
                index |-> it.index + 1]]

\* for (it = begin(); it != end(); ++it) *it;  seen: the slots dereferenced
RECURSIVE IterLoop(_, _, _, _)
IterLoop(m, it, e, seen) ==
  IF m.st # "ok" \/ ~iter_neq(it, e) THEN [m |-> m, it |-> it, seen |-> seen]
  ELSE LET d == deref(m, it) IN
       IF d.st # "ok" THEN [m |-> d, it |-> it, seen |-> seen]
       ELSE LET n == increment(d, it)
            IN IterLoop(n.m, n.it, e, Append(seen, it.visit[it.index + 1]))

traverse(m) == IterLoop(m, begin(m), end(m), <<>>)

\* ------------------------------------------------------------------ state
Init ==
  /\ _nodes = [s \in Slots |-> Blank]
  /\ live = {}
  /\ _table = <<_EMPTY_INDEX, _EMPTY_INDEX>>
  /\ _head_index = _EMPTY_INDEX
  /\ status = "ok"
  /\ op = [name |-> "new", key |-> 0, value |-> 0, parent |-> 0]
  /\ ret = 0
  /\ calls = 0

Commit(m, o, r) ==
  /\ _nodes' = m.nodes
  /\ live' = m.live
  /\ _table' = m.table
  /\ _head_index' = m.head
  /\ status' = m.st
  /\ op' = o
  /\ ret' = IF m.st = "ok" THEN r ELSE 0
  /\ calls' = calls + 1

\* the iteration orders a call may meet: they matter only to a rehash
Orders(rehashes) == IF rehashes THEN Perms(Slots) ELSE {<<>>}

\* a call that touches an erased slot has two outcomes, any other call one
Tols(m) == IF m.dead THEN BOOLEAN ELSE {TRUE}

Insert ==
  /\ status = "ok"
  /\ calls < MaxCalls
  /\ \E key \in Keys, value \in Values, s \in FreeSlots :
       \E order \in Orders(AboveMaxLoad(Machine(TRUE))) :
         LET r == insert2(Machine(TRUE), key, value, s, order) IN
         \E tol \in Tols(r) :
           Commit(IF tol THEN r ELSE insert2(Machine(FALSE), key, value, s, order),
                  [name |-> "insert", key |-> key, value |-> value, parent |-> 0], 0)

InsertUnder ==
  /\ status = "ok"
  /\ calls < MaxCalls
  /\ \E key \in Keys, value \in Values, parent \in Keys, s \in FreeSlots :
       \E order \in Orders(AboveMaxLoad(Machine(TRUE))) :
         LET r == insert3(Machine(TRUE), key, value, parent, s, order) IN
         \E tol \in Tols(r) :
           Commit(IF tol THEN r ELSE insert3(Machine(FALSE), key, value, parent, s, order),
                  [name |-> "insert3", key |-> key, value |-> value, parent |-> parent], 0)

Erase ==
  /\ status = "ok"
  /\ calls < MaxCalls
  /\ \E key \in Keys :
       LET e == EraseNodes(Machine(TRUE), key) IN
       \E order \in Orders(e.m.st = "ok" /\ ~e.cleared /\ BelowMinLoad(e.m)) :
         LET r == erase(Machine(TRUE), key, order) IN
         \E tol \in Tols(r) :
           Commit(IF tol THEN r ELSE erase(Machine(FALSE), key, order),
                  [name |-> "erase", key |-> key, value |-> 0, parent |-> 0], 0)

SetParent ==
  /\ status = "ok"
  /\ calls < MaxCalls
  /\ \E key \in Keys, new_parent \in Keys :
       LET r == set_parent(Machine(TRUE), key, new_parent) IN
       \E tol \in Tols(r) :
         Commit(IF tol THEN r ELSE set_parent(Machine(FALSE), key, new_parent),
                [name |-> "set_parent", key |-> key, value |-> 0, parent |-> new_parent], 0)

At ==
  /\ status = "ok"
  /\ calls < MaxCalls
  /\ \E key \in Keys :
       LET a == at(Machine(TRUE), key) IN
       \E tol \in Tols(a.m) :
         Commit(IF tol THEN a.m ELSE at(Machine(FALSE), key).m,
                [name |-> "at", key |-> key, value |-> 0, parent |-> 0],
                IF tol THEN a.r ELSE 0)

Clear ==
  /\ status = "ok"
  /\ calls < MaxCalls
  /\ Commit(clear(Machine(TRUE)),
            [name |-> "clear", key |-> 0, value |-> 0, parent |-> 0], 0)

Subscript ==
  /\ status = "ok"
  /\ calls < MaxCalls
  /\ \E key \in Keys :
       \E absent \in {index(Machine(TRUE), key).r = _EMPTY_INDEX} :
         \E s \in (IF absent THEN FreeSlots ELSE {0}) :
           \E order \in Orders(absent /\ AboveMaxLoad(Machine(TRUE))) :
             \E a \in {subscript(Machine(TRUE), key, s, order)} :
               \E tol \in Tols(a.m) :
                 Commit(IF tol THEN a.m ELSE subscript(Machine(FALSE), key, s, order).m,
                        [name |-> "subscript", key |-> key, value |-> 0, parent |-> 0],
                        IF tol THEN a.r ELSE 0)

Iterate ==
  /\ status = "ok"
  /\ calls < MaxCalls
  /\ LET t == traverse(Machine(TRUE)) IN
     \E tol \in Tols(t.m) :
       Commit(IF tol THEN t.m ELSE traverse(Machine(FALSE)).m,
              [name |-> "iterate", key |-> 0, value |-> 0, parent |-> 0],
              IF tol THEN Len(t.seen) ELSE 0)

Next ==
  \/ Insert \/ InsertUnder \/ Erase \/ SetParent \/ At \/ Clear
  \/ Subscript \/ Iterate

Spec == Init /\ [][Next]_vars

\* ------------------------------------------------- the state, as observed
Cur == Machine(TRUE)
Container == <<_nodes, live, _table, _head_index>>

\* index(key) evaluated in the current state
Resolve(key) == index(Cur, key)

KeyLive(key) == \E s \in live : _nodes[s].key = key
Count(seq, x) == Cardinality({i \in 1..Len(seq) : seq[i] = x})

\* the slots reachable from the slots of S through childs
RECURSIVE Reach(_)
Reach(S) ==
  LET N == S \cup {c \in Slots : \E s \in S : c \in Range(_nodes[s].childs)}
  IN IF N = S THEN S ELSE Reach(N)

\* key resolves to a live node that is not the root
NonRootPresent(key) ==
  LET a == Resolve(key) IN
  a.m.st = "ok" /\ a.r \in live /\ a.r # _head_index

\* ------------------------------------------------------------------ claims

\* C1: single-root invariant.  After every call that returned, at most one
\* live node has an empty parent_index, that node is _head_index, and
\* _head_index is empty exactly when size() = 0.
C1_SingleRoot ==
  status = "ok" =>
    /\ Cardinality({s \in live : _nodes[s].parent_index = _EMPTY_INDEX}) <= 1
    /\ \A s \in live : _nodes[s].parent_index = _EMPTY_INDEX => s = _head_index
    /\ (_head_index = _EMPTY_INDEX) <=> (Cardinality(live) = 0)

\* C2: lookup/insert consistency.  Right after insert(k, v) or
\* insert(k, v, p) returned, at(k) returns v; and a key whose at() returns v
\* keeps returning v across a later call on other keys that leaves a live
\* node with that key.
C2_AtAfterInsert ==
  (op.name \in {"insert", "insert3"} /\ status = "ok") =>
    LET a == at(Cur, op.key) IN a.m.st = "ok" /\ ~a.m.dead /\ a.r = op.value

C2_AtStable ==
  \A k \in Keys :
    LET a == at(Cur, k) IN
    (/\ a.m.st = "ok" /\ ~a.m.dead
     /\ status' = "ok"
     /\ op'.key # k
     /\ KeyLive(k)') =>
      (at(Cur, k).m.st = "ok" /\ at(Cur, k).r = a.r)'

C2_LookupConsistency == [](C2_AtAfterInsert) /\ [][C2_AtStable]_vars

\* C3: cascade completeness.  erase(x) of a present non-root key returns
\* and removes exactly the nodes reachable from x through childs; the
\* survivors keep key, value and parent.
C3_Step ==
  (op'.name = "erase" /\ NonRootPresent(op'.key)) =>
    LET x == Resolve(op'.key).r IN
    /\ status' = "ok"
    /\ live' = live \ Reach({x})
    /\ Cardinality(live') = Cardinality(live) - Cardinality(Reach({x}))
    /\ \A s \in live' :
         /\ _nodes'[s].key = _nodes[s].key
         /\ _nodes'[s].value = _nodes[s].value
         /\ _nodes'[s].parent_index = _nodes[s].parent_index

C3_CascadeCompleteness == [][C3_Step]_vars

\* C4: after a non-root erase returned, the key of every node it removed
\* (and that no surviving node holds) no longer resolves: index returns the
\* empty sentinel, without touching an erased slot.
C4_Step ==
  (op'.name = "erase" /\ NonRootPresent(op'.key) /\ status' = "ok") =>
    \A s \in live \ live' :
      ~KeyLive(_nodes[s].key)' =>
        (LET a == Resolve(_nodes[s].key) IN
           a.m.st = "ok" /\ ~a.m.dead /\ a.r = _EMPTY_INDEX)'

C4_ErasedKeysUnresolved == [][C4_Step]_vars

\* C5: root erase clears all.  erase(r), r the key of the current root,
\* returns and leaves size() = 0, an empty _head_index and no bucket that
\* references a slot.
C5_Step ==
  (/\ op'.name = "erase"
   /\ _head_index \in live
   /\ _nodes[_head_index].key = op'.key) =>
    /\ status' = "ok"
    /\ live' = {}
    /\ _head_index' = _EMPTY_INDEX
    /\ \A b \in DOMAIN _table' : _table'[b] = _EMPTY_INDEX

C5_RootEraseClears == [][C5_Step]_vars

\* C6: reparent moves exactly one node.  set_parent(k, p) on two present
\* keys returns; k's parent_index is p's slot, k's slot is the last element
\* of p's childs and occurs there once, it is gone from the former parent's
\* childs, and no other parent_index or childs changes.
C6_Step ==
  (/\ op'.name = "set_parent"
   /\ Resolve(op'.key).m.st = "ok" /\ Resolve(op'.key).r \in live
   /\ Resolve(op'.parent).m.st = "ok" /\ Resolve(op'.parent).r \in live) =>
    LET k == Resolve(op'.key).r
        p == Resolve(op'.parent).r
        old == _nodes[k].parent_index
    IN /\ status' = "ok"
       /\ _nodes'[k].parent_index = p
       /\ Count(_nodes'[p].childs, k) = 1
       /\ _nodes'[p].childs[Len(_nodes'[p].childs)] = k
       /\ (old # _EMPTY_INDEX /\ old # p) => k \notin Range(_nodes'[old].childs)
       /\ \A s \in live :
            /\ s # k => _nodes'[s].parent_index = _nodes[s].parent_index
            /\ s \notin {p, old} => _nodes'[s].childs = _nodes[s].childs

C6_ReparentMovesOne == [][C6_Step]_vars

\* C7: invalid-parent failure.  insert(k, v, p) with a parent key that no
\* live node holds ends as "not_found" and leaves the container as it was.
C7_Step ==
  (op'.name = "insert3" /\ ~KeyLive(op'.parent)) =>
    (status' = "not_found" /\ Container' = Container)

C7_InvalidParentFails == [][C7_Step]_vars

\* C8: key-not-found failure.  at(k), erase(k) and set_parent(k, p) with a
\* key no live node holds end as "not_found" and leave the container as it
\* was.
C8_Step ==
  (\/ op'.name \in {"at", "erase"} /\ ~KeyLive(op'.key)
   \/ op'.name = "set_parent" /\ (~KeyLive(op'.key) \/ ~KeyLive(op'.parent))) =>
    (status' = "not_found" /\ Container' = Container)

C8_KeyNotFoundFails == [][C8_Step]_vars

\* C9: load-factor bounds after rehash.  When an insert grows the table or
\* a non-root erase shrinks it, MIN_LOAD <= size()/table_size() <= MAX_LOAD
\* holds at the return of that call.
GrowthCall == op'.name \in {"insert", "insert3"} /\ AboveMaxLoad(Cur)
ShrinkCall ==
  /\ op'.name = "erase"
  /\ LET e == EraseNodes(Cur, op'.key) IN
     e.m.st = "ok" /\ ~e.cleared /\ BelowMinLoad(e.m)

LoadWithinBounds ==
  /\ MIN_LOAD_NUM * Len(_table) <= LOAD_DEN * Cardinality(live)
  /\ LOAD_DEN * Cardinality(live) <= MAX_LOAD_NUM * Len(_table)

C9_Step == ((GrowthCall \/ ShrinkCall) /\ status' = "ok") => LoadWithinBounds'

C9_LoadAfterRehash == [][C9_Step]_vars

\* C10: minimum table size.  table_size() >= 2 in every state.
C10_MinTableSize == Len(_table) >= 2

\* ------------------------------------------- observations for C11 .. C20

\* breadth-first order from slot r over childs, cut off after n slots
RECURSIVE Bfs(_, _, _)
Bfs(queue, out, n) ==
  IF queue = <<>> \/ n = 0 THEN out
  ELSE IF Head(queue) = _EMPTY_INDEX THEN out
  ELSE Bfs(Tail(queue) \o _nodes[Head(queue)].childs, Append(out, Head(queue)), n - 1)

BfsFromRoot == Bfs(<<_head_index>>, <<>>, Cardinality(Slots) + 1)

\* the slot the call op' put its record in, when there is exactly one
NewSlots == live' \ live

\* the slots on the chain that starts at slot i of machine m, at most n of them
RECURSIVE ChainFrom(_, _, _)
ChainFrom(m, i, n) ==
  IF i = _EMPTY_INDEX \/ n = 0 THEN <<>>
  ELSE <<i>> \o ChainFrom(m, m.nodes[i].next_index, n - 1)

ChainOfBucket(m, b) == ChainFrom(m, m.table[b], Cardinality(Slots) + 1)

\* every chain of m ends, and each live node is once on the chain of its
\* bucket and on no other
ChainsWellFormed(m) ==
  /\ \A b \in DOMAIN m.table : Len(ChainOfBucket(m, b)) <= Cardinality(Slots)
  /\ \A s \in m.live :
       \A b \in DOMAIN m.table :
         Count(ChainOfBucket(m, b), s) =
           IF b = (m.nodes[s].hash_value % table_size(m)) + 1 THEN 1 ELSE 0

\* C11: breadth-first traversal.  In every state between calls, the loop
\* from begin() to end() dereferences exactly size() positions, all inside
\* the visitation sequence and none of an erased slot, and the slots visited
\* are the breadth-first order from the root, every live node once.
C11_Traversal ==
  status = "ok" =>
    LET t == traverse(Cur) IN
    /\ t.m.st = "ok" /\ ~t.m.dead
    /\ Len(t.seen) = Cardinality(live)
    /\ Range(t.seen) = live
    /\ t.seen = BfsFromRoot

\* C12: parentless insert.  insert(k, v) on a map of size 0 returns and
\* makes the new node the root with an empty parent_index; on a non-empty
\* map it returns, appends the new slot to the root's childs, sets the new
\* node's parent_index to the root and leaves the root unchanged.
C12_Step ==
  (op'.name = "insert") =>
    /\ status' = "ok"
    /\ \E n \in Slots \ live :
         /\ live' = live \cup {n}
         /\ IF Cardinality(live) = 0
            THEN /\ _head_index' = n
                 /\ _nodes'[n].parent_index = _EMPTY_INDEX
            ELSE /\ _head_index' = _head_index
                 /\ _head_index \in live
                 /\ _nodes'[_head_index].childs = Append(_nodes[_head_index].childs, n)
                 /\ _nodes'[n].parent_index = _head_index

C12_ParentlessInsert == [][C12_Step]_vars

\* C13: insert with explicit parent.  insert(k, v, p) with p resolving to a
\* live node returns, appends the new slot to the childs of the node p
\* resolved to before the call, sets the new node's parent_index to it, adds
\* one to size() and changes no other parent_index or childs.
C13_Step ==
  (/\ op'.name = "insert3"
   /\ Resolve(op'.parent).m.st = "ok" /\ Resolve(op'.parent).r \in live) =>
    LET p == Resolve(op'.parent).r IN
    /\ status' = "ok"
    /\ \E n \in Slots \ live :
         /\ live' = live \cup {n}
         /\ _nodes'[p].childs = Append(_nodes[p].childs, n)
         /\ _nodes'[n].parent_index = p
         /\ _nodes'[n].childs = <<>>
    /\ \A s \in live :
         /\ _nodes'[s].parent_index = _nodes[s].parent_index
         /\ s # p => _nodes'[s].childs = _nodes[s].childs

C13_InsertUnderParent == [][C13_Step]_vars

\* C14: key uniqueness.  No two live nodes hold equal keys.
C14_KeyUniqueness ==
  status = "ok" =>
    \A s, t \in live : s # t => _nodes[s].key # _nodes[t].key

\* C15: load-factor invariant.  Between calls,
\* MIN_LOAD <= size()/table_size() <= MAX_LOAD.
C15_LoadInvariant == status = "ok" => LoadWithinBounds

\* C15 (amended): between calls size() <= table_size(), that is the load
\* factor never exceeds 1; it exceeds MAX_LOAD after an insert into a table
\* that was just below the threshold, and is below MIN_LOAD in a new map.
C15_SizeWithinTable == status = "ok" => Cardinality(live) <= Len(_table)

\* an insert returned and left the load factor above MAX_LOAD
C15_Witness ==
  /\ status = "ok"
  /\ op.name \in {"insert", "insert3", "subscript"}
  /\ AboveMaxLoad(Cur)
  /\ Cardinality(live) = Len(_table)

\* C16: upsert access.  operator[](k) on a key that resolves to a live node
\* returns that node's value and changes nothing; on a key no live node
\* holds it returns, adds exactly one node, a parentless insert of the
\* default value (root of an empty map, else last child of the root), and
\* returns the value of that node.
C16_Step ==
  (op'.name = "subscript") =>
    IF KeyLive(op'.key)
    THEN /\ status' = "ok"
         /\ Container' = Container
         /\ Resolve(op'.key).r \in live
         /\ ret' = _nodes[Resolve(op'.key).r].value
    ELSE /\ status' = "ok"
         /\ ret' = DefaultValue
         /\ \E n \in Slots \ live :
              /\ live' = live \cup {n}
              /\ _nodes'[n].key = op'.key
              /\ _nodes'[n].value = DefaultValue
              /\ IF Cardinality(live) = 0
                 THEN _head_index' = n /\ _nodes'[n].parent_index = _EMPTY_INDEX
                 ELSE /\ _head_index' = _head_index
                      /\ _head_index \in live
                      /\ _nodes'[_head_index].childs = Append(_nodes[_head_index].childs, n)
                      /\ _nodes'[n].parent_index = _head_index

C16_UpsertAccess == [][C16_Step]_vars

\* C17: link validity.  Every slot named by a bucket head or by the
\* next_index, parent_index or childs of a live node is the empty sentinel
\* or the slot of a live node.
ValidLink(i) == i = _EMPTY_INDEX \/ i \in live

C17_LinkValidity ==
  status = "ok" =>
    /\ \A b \in DOMAIN _table : ValidLink(_table[b])
    /\ \A s \in live :
         /\ ValidLink(_nodes[s].next_index)
         /\ ValidLink(_nodes[s].parent_index)
         /\ \A c \in Range(_nodes[s].childs) : ValidLink(c)

\* C18: hash-chain well-formedness.  Every bucket chain ends, each live node
\* is on exactly one chain, that of bucket hash_value % table_size(), and
\* the chain walk of index(key) ends for every key.
C18_ChainsWellFormed ==
  status = "ok" =>
    /\ ChainsWellFormed(Cur)
    /\ \A k \in Keys : Resolve(k).m.st # "hang"

\* C19: parent/child consistency.  Every live node with a parent occurs
\* exactly once in the childs of that parent, a live node; every slot in the
\* childs of a live node is a live node whose parent_index is that node; no
\* slot is in the childs of two live nodes.
C19_ParentChildConsistency ==
  status = "ok" =>
    /\ \A n \in live :
         LET p == _nodes[n].parent_index IN
         p # _EMPTY_INDEX => (p \in live /\ Count(_nodes[p].childs, n) = 1)
    /\ \A p \in live : \A c \in Range(_nodes[p].childs) :
         c \in live /\ _nodes[c].parent_index = p
    /\ \A p, q \in live :
         p # q => Range(_nodes[p].childs) \cap Range(_nodes[q].childs) = {}

\* C20: rehash preservation.  A rehash changes only the table and the
\* next_index links: _head_index, size() and each live node's key, value,
\* hash_value, parent_index and childs stay; afterwards the chains hold
\* exactly the live nodes, each once, in bucket hash_value % new size; and
\* every key that resolved to a live node resolves to the same slot,
\* whatever the order in which the store iterates.
RehashPreserves(m, r) ==
  /\ r.st = "ok"
  /\ r.head = m.head
  /\ r.live = m.live
  /\ \A s \in m.live :
       [r.nodes[s] EXCEPT !.next_index = _EMPTY_INDEX]
         = [m.nodes[s] EXCEPT !.next_index = _EMPTY_INDEX]
  /\ ChainsWellFormed(r)
  /\ \A b \in DOMAIN r.table : Range(ChainOfBucket(r, b)) \subseteq r.live
  /\ \A k \in Keys :
       LET a == index(m, k) IN
       (a.m.st = "ok" /\ ~a.m.dead /\ a.r \in m.live) =>
         (index(r, k).m.st = "ok" /\ index(r, k).r = a.r)

C20_RehashPreservation ==
  status = "ok" =>
    /\ AboveMaxLoad(Cur) =>
         \A order \in Perms(Slots) :
           RehashPreserves(Cur, rehash(Cur, table_size(Cur) * 2, order))
    /\ \A key \in Keys :
         LET e == EraseNodes(Cur, key) IN
         (e.m.st = "ok" /\ ~e.m.dead /\ ~e.cleared /\ BelowMinLoad(e.m)) =>
           \A order \in Perms(Slots) :
             RehashPreserves(e.m, rehash(e.m, table_size(e.m) \div 2, order))
====
